---- MODULE Spec2Model ----
(***************************************************************************)
(* A model of connectchain's MCP tool layer:                               *)
(*   - MCPToolAgent  (src/connectchain/tools/mcp/agent.py): the tool       *)
(*     registry, ainvoke's mediation loop split at its await points, the   *)
(*     synchronous invoke wrapper and the unsupported Runnable methods;    *)
(*   - MCPToolLoader (src/connectchain/tools/mcp/loader.py): load_tools,   *)
(*     _apply_enterprise_settings and close, with Python's shallow-copy    *)
(*     aliasing of a server entry's env mapping.                           *)
(* Python dicts are records/functions, lists are sequences, a raised       *)
(* exception is an outcome record of kind "raise".                         *)
(***************************************************************************)
EXTENDS Integers, Sequences, FiniteSets, TLC

VARIABLES
    \* ---- MCPToolAgent ----
    tools,          \* self.tools: tool name -> handle (agent.py:26)
    pc,             \* position of the running call inside ainvoke
    entry,          \* public method that started the running call
    loop_running,   \* was an event loop already running when invoke was called
    llm,            \* the resolved model handle, after bind_tools
    response,       \* the model's output (agent.py:39)
    i,              \* index of the tool call the for-loop is at (agent.py:45)
    results,        \* the local list `results` (agent.py:44)
    in_progress,    \* request indices whose tool ainvoke is awaited right now
    invoked,        \* tool invocations started by this call, in start order
    model_calls,    \* how often this call resolved / invoked the model
    failure,        \* the failure model resolution / the model raised, if any
    aret,           \* what ainvoke itself returned or raised
    ret,            \* what the public call returned or raised
    unsupported,    \* outcome of the latest _call / batch / abatch
    \* ---- MCPToolLoader ----
    data,           \* config.data, the caller-owned configuration source
    policy,         \* config.proxy / config.eas / config.cert
    client,         \* self.client (loader.py:16)
    lpc,            \* position of the running load_tools call
    derived,        \* latest direct _apply_enterprise_settings: input, output
    server_names,   \* the server_names argument of the latest load_tools
    discovered,     \* what the transport's get_tools gave the running load
    load_ret,       \* outcome of the latest load_tools / close
    \* ---- model resolution (lcel/model.py) ----
    app_config,     \* config = Config.from_env(): the eas section and the model slots
    environ,        \* os.environ, the entries keyed by a session fingerprint
    session_map,    \* SessionMap's process-wide map: fingerprint -> session
    now,            \* the clock session timestamps are taken from
    threads,        \* per calling thread: its acquisition in model(index)
    \* ---- one model(index) call in detail (lcel/model.py) ----
    request,        \* the config and the model_config of the slot asked for
    os_environ,     \* os.environ, the API key variables
    acq             \* position and outcome of the call

agent_vars == <<tools, pc, entry, loop_running, llm, response, i, results,
                in_progress, invoked, model_calls, failure, aret, ret,
                unsupported>>
loader_vars == <<data, policy, client, lpc, derived, server_names,
                 discovered, load_ret>>
resolver_vars == <<app_config, environ, session_map, now, threads>>
acquire_vars == <<request, os_environ, acq>>
vars == <<agent_vars, loader_vars, resolver_vars, acquire_vars>>

(***************************************************************************)
(* Bounds and input domains                                                *)
(***************************************************************************)
MaxToolCalls == 3     \* longest tool_calls list a model response carries
MaxTools == 2         \* longest tool list given to the constructor
MaxTime == 2          \* how far the clock of the session cache runs

None == "None"
Missing == "<missing>"
EmptyArgs == "{}"

\* Tool handles as the transport collaborator hands them over; `returns` is
\* the value the handle yields when it succeeds (the mocks' return_value).
Handles ==
    { [name |-> "add", id |-> 1, returns |-> 10],
      [name |-> "add", id |-> 2, returns |-> 11],
      [name |-> "multiply", id |-> 3, returns |-> 20] }

\* Tool-call requests in both shapes ainvoke accepts: a dict (whose "args"
\* key may be missing) or an object with .name / .args.
Requests ==
    { [shape |-> "dict", name |-> "add", args |-> "a=5,b=5"],
      [shape |-> "dict", name |-> "multiply", args |-> Missing],
      [shape |-> "dict", name |-> "unknown_tool", args |-> EmptyArgs],
      [shape |-> "object", name |-> "multiply", args |-> "a=2,b=10"] }

SeqsUpTo(S, n) == UNION { [1..k -> S] : k \in 0..n }

\* Model outputs: an AIMessage (always has tool_calls, possibly empty), or
\* some other object with or without a tool_calls attribute.
Responses ==
    { [type |-> "AIMessage", content |-> "text", repr |-> "AIMessage(text)",
       has_tool_calls |-> TRUE, tool_calls |-> tc] :
         tc \in SeqsUpTo(Requests, MaxToolCalls) }
    \cup
    { [type |-> "other", content |-> Missing, repr |-> "str(response)",
       has_tool_calls |-> FALSE, tool_calls |-> << >>] }
    \cup
    { [type |-> "other", content |-> Missing, repr |-> "str(response)",
       has_tool_calls |-> TRUE, tool_calls |-> tc] :
         tc \in SeqsUpTo(Requests, 1) }

\* Failures of model resolution (model.py raises LCELModelException, a
\* BaseException) and of the model's ainvoke.
ResolveFailures == { [exc |-> "LCELModelException", msg |-> "No models defined in config"],
                     [exc |-> "RuntimeError", msg |-> "resolver failed"] }
ModelFailures == { [exc |-> "RuntimeError", msg |-> "model failed"],
                   [exc |-> "ValueError", msg |-> "bad input"] }
\* Failures of a tool's ainvoke: errors derived from Exception, the ones the
\* handler at agent.py:53 catches. Cancellation of the running task and
\* interpreter exit (BaseException only) are not tool failures.
ToolFailures == { [exc |-> "Exception", msg |-> "Tool failed"] }
NoFailure == [exc |-> "none", msg |-> ""]
Pending == [exc |-> "pending", msg |-> ""]

NoOutcome == [kind |-> "none"]
Raise(f) == [kind |-> "raise", exc |-> f.exc, msg |-> f.msg]

(***************************************************************************)
(* MCPToolAgent                                                            *)
(***************************************************************************)
RECURSIVE Registry(_)
\* {tool.name: tool for tool in tools}: a later duplicate overwrites.
Registry(list) ==
    IF list = << >> THEN << >>
    ELSE LET n == Len(list)
             rest == Registry(SubSeq(list, 1, n - 1))
             last == list[n]
         IN  [k \in (DOMAIN rest) \cup {last.name} |->
                 IF k = last.name THEN last ELSE rest[k]]

tool_args_raw(tool_call) == tool_call.args

\* agent.py:46-47, the duck-typed read of one tool call.
tool_name(tool_call) == tool_call.name
tool_args(tool_call) ==
    IF tool_call.shape = "dict" /\ tool_call.args = Missing
    THEN EmptyArgs ELSE tool_call.args

\* agent.py:49
is_registered(name, registry) == name \in DOMAIN registry

prepend_result(res, outcome) == <<outcome>> \o res

\* agent.py:52 and 57: results.append(...)
append_result(res, outcome) == Append(res, outcome)

after_unknown_break(idx, calls) == Len(calls) + 1

after_unknown_stay(idx, calls) == idx

\* agent.py:58-59: an unknown name is logged, the loop goes on.
after_unknown(idx, calls) == idx + 1

no_tool_calls_attr_only(resp) == ~resp.has_tool_calls

\* agent.py:41
no_tool_calls(resp) == ~resp.has_tool_calls \/ resp.tool_calls = << >>

\* agent.py:61-64
result_record(resp, res) ==
    [kind |-> "record",
     content |-> IF resp.type = "AIMessage" THEN resp.content ELSE resp.repr,
     tool_results |-> res]

invoke_unwrapped(outcome) == outcome

InvokeMessage == "MCPToolAgent.invoke() failed. If you are running from within an event loop, please use the async ainvoke() method with await instead."

\* agent.py:73-80: what invoke makes of the outcome of asyncio.run(ainvoke).
invoke_wrap(outcome) ==
    IF outcome.kind = "raise" /\ outcome.exc = "RuntimeError"
    THEN [kind |-> "raise", exc |-> "RuntimeError", msg |-> InvokeMessage]
    ELSE outcome

\* The running call ends: ainvoke's outcome, and what the caller sees.
Finish(method, outcome) ==
    /\ pc' = "Done"
    /\ aret' = outcome
    /\ ret' = IF method = "invoke" THEN invoke_wrap(outcome) ELSE outcome

registry_cleared(registry) == << >>

\* agent.py:35-37: self.tools is only read; bind_tools is handed a new list
\* of its values, self.model_id is only passed to model().
registry_read(registry) == registry

NoLlm == [bind_tools |-> FALSE, bound |-> {}]
NoResponse == [type |-> "none", content |-> Missing, repr |-> Missing,
               has_tool_calls |-> FALSE, tool_calls |-> << >>]

\* agent.py:35-39, up to the await of llm.ainvoke: resolve the model, bind
\* every registered tool when the handle supports it, submit the input.
ainvoke_begin(method) ==
    /\ pc \in {"Idle", "Done"}
    /\ entry' = method
    /\ response' = NoResponse
    /\ i' = 0
    /\ results' = << >>
    /\ in_progress' = {}
    /\ invoked' = << >>
    /\ unsupported' = NoOutcome
    /\ \/ \E f \in ResolveFailures :
            /\ llm' = NoLlm
            /\ model_calls' = [resolve |-> 1, ainvoke |-> 0]
            /\ failure' = f
            /\ Finish(method, Raise(f))
       \/ \E can_bind \in BOOLEAN :
            /\ llm' = [bind_tools |-> can_bind,
                       bound |-> IF can_bind
                                 THEN { tools[k] : k \in DOMAIN tools } ELSE {}]
            /\ model_calls' = [resolve |-> 1, ainvoke |-> 1]
            /\ failure' = NoFailure
            /\ pc' = "AwaitingModelResponse"
            /\ aret' = NoOutcome
            /\ ret' = NoOutcome
    /\ tools' = registry_read(tools)

\* agent.py:28
ainvoke ==
    /\ ainvoke_begin("ainvoke")
    /\ loop_running' = FALSE
    /\ UNCHANGED <<loader_vars, resolver_vars, acquire_vars>>

\* agent.py:66-80: asyncio.run refuses to start inside a running loop.
invoke ==
    /\ \E running \in BOOLEAN :
         /\ loop_running' = running
         /\ IF running
            THEN /\ pc \in {"Idle", "Done"}
                 /\ entry' = "invoke"
                 /\ pc' = "Done"
                 /\ aret' = NoOutcome
                 /\ ret' = invoke_wrap(Raise([exc |-> "RuntimeError",
                        msg |-> "asyncio.run() cannot be called from a running event loop"]))
                 /\ response' = NoResponse
                 /\ llm' = NoLlm
                 /\ i' = 0
                 /\ results' = << >>
                 /\ in_progress' = {}
                 /\ invoked' = << >>
                 /\ model_calls' = [resolve |-> 0, ainvoke |-> 0]
                 /\ failure' = NoFailure
                 /\ unsupported' = NoOutcome
                 /\ UNCHANGED tools
            ELSE ainvoke_begin("invoke")
    /\ UNCHANGED <<loader_vars, resolver_vars, acquire_vars>>

\* agent.py:41-44: the decision on the model's output.
on_response(resp) ==
    /\ response' = resp
    /\ failure' = NoFailure
    /\ IF no_tool_calls(resp)
       THEN /\ Finish(entry, [kind |-> "raw", value |-> resp])
            /\ UNCHANGED <<i, results>>
       ELSE /\ pc' = "DispatchingTools"
            /\ i' = 1
            /\ results' = << >>
            /\ UNCHANGED <<aret, ret>>
    /\ UNCHANGED <<tools, entry, loop_running, llm, in_progress, invoked,
                   model_calls, unsupported, loader_vars, resolver_vars, acquire_vars>>

ModelResponds_swallow ==
    /\ pc = "AwaitingModelResponse"
    /\ \/ \E f \in ModelFailures :
            /\ failure' = f
            /\ Finish(entry, result_record(response, << >>))
            /\ UNCHANGED <<tools, entry, loop_running, llm, response, i,
                           results, in_progress, invoked, model_calls,
                           unsupported, loader_vars, resolver_vars, acquire_vars>>
       \/ \E resp \in Responses : on_response(resp)

\* agent.py:39: the model's ainvoke completes; its failure propagates.
ModelResponds ==
    /\ pc = "AwaitingModelResponse"
    /\ \/ \E f \in ModelFailures :
            /\ failure' = f
            /\ Finish(entry, Raise(f))
            /\ UNCHANGED <<tools, entry, loop_running, llm, response, i,
                           results, in_progress, invoked, model_calls,
                           unsupported, loader_vars, resolver_vars, acquire_vars>>
       \/ \E resp \in Responses : on_response(resp)

DispatchNext_gather ==
    /\ pc = "DispatchingTools"
    /\ i <= Len(response.tool_calls)
    /\ LET tool_call == response.tool_calls[i]
           name == tool_name(tool_call)
       IN  /\ i' = i + 1
           /\ IF is_registered(name, tools)
              THEN /\ in_progress' = in_progress \cup {i}
                   /\ invoked' = Append(invoked,
                          [request |-> i, handle |-> tools[name],
                           args |-> tool_args(tool_call), outcome |-> Pending])
              ELSE UNCHANGED <<in_progress, invoked>>
    /\ UNCHANGED <<tools, pc, entry, loop_running, llm, response, results,
                   model_calls, failure, aret, ret, unsupported, loader_vars, resolver_vars, acquire_vars>>

\* agent.py:45-51 and 58-59: one iteration of the for-loop up to its await;
\* an unknown name is logged and skipped.
DispatchNext ==
    /\ pc = "DispatchingTools"
    /\ i <= Len(response.tool_calls)
    /\ LET tool_call == response.tool_calls[i]
           name == tool_name(tool_call)
       IN  IF is_registered(name, tools)
           THEN /\ pc' = "AwaitingTool"
                /\ in_progress' = in_progress \cup {i}
                /\ invoked' = Append(invoked,
                       [request |-> i, handle |-> tools[name],
                        args |-> tool_args(tool_call), outcome |-> Pending])
                /\ UNCHANGED i
           ELSE /\ i' = after_unknown(i, response.tool_calls)
                /\ UNCHANGED <<pc, in_progress, invoked>>
    /\ UNCHANGED <<tools, entry, loop_running, llm, response, results,
                   model_calls, failure, aret, ret, unsupported, loader_vars, resolver_vars, acquire_vars>>

tool_outcome_type_only(name, handle, fail) ==
    IF fail = NoFailure
    THEN [tool |-> name, result |-> handle.returns]
    ELSE [tool |-> name, error |-> fail.exc]

\* agent.py:52 and 57: the outcome recorded for one dispatched call.
tool_outcome(name, handle, fail) ==
    IF fail = NoFailure
    THEN [tool |-> name, result |-> handle.returns]
    ELSE [tool |-> name, error |-> fail.msg]

\* agent.py:51-57: the awaited tool returns or raises.
ToolCompletes ==
    /\ pc = "AwaitingTool"
    /\ \E fail \in ToolFailures \cup {NoFailure} :
         LET name == tool_name(response.tool_calls[i])
         IN  /\ results' = append_result(results,
                                tool_outcome(name, tools[name], fail))
             /\ invoked' = [invoked EXCEPT ![Len(invoked)].outcome = fail]
    /\ in_progress' = in_progress \ {i}
    /\ i' = i + 1
    /\ pc' = "DispatchingTools"
    /\ UNCHANGED <<tools, entry, loop_running, llm, response, model_calls,
                   failure, aret, ret, unsupported, loader_vars, resolver_vars, acquire_vars>>

\* agent.py:61-64: the loop is exhausted.
ReturnRecord ==
    /\ pc = "DispatchingTools"
    /\ i > Len(response.tool_calls)
    /\ Finish(entry, result_record(response, results))
    /\ UNCHANGED <<tools, entry, loop_running, llm, response, i, results,
                   in_progress, invoked, model_calls, failure, unsupported,
                   loader_vars, resolver_vars, acquire_vars>>

NotSupported(method) ==
    [kind |-> "raise", exc |-> "NotImplementedError", method |-> method]

\* agent.py:82-90
_call ==
    /\ unsupported' = NotSupported("_call")
    /\ UNCHANGED <<tools, pc, entry, loop_running, llm, response, i, results,
                   in_progress, invoked, model_calls, failure, aret, ret,
                   loader_vars, resolver_vars, acquire_vars>>

batch_returns_empty ==
    /\ unsupported' = [kind |-> "return", method |-> "batch"]
    /\ UNCHANGED <<tools, pc, entry, loop_running, llm, response, i, results,
                   in_progress, invoked, model_calls, failure, aret, ret,
                   loader_vars, resolver_vars, acquire_vars>>

\* agent.py:92-100
batch ==
    /\ unsupported' = NotSupported("batch")
    /\ UNCHANGED <<tools, pc, entry, loop_running, llm, response, i, results,
                   in_progress, invoked, model_calls, failure, aret, ret,
                   loader_vars, resolver_vars, acquire_vars>>

\* agent.py:102-110
abatch ==
    /\ unsupported' = NotSupported("abatch")
    /\ UNCHANGED <<tools, pc, entry, loop_running, llm, response, i, results,
                   in_progress, invoked, model_calls, failure, aret, ret,
                   loader_vars, resolver_vars, acquire_vars>>

(***************************************************************************)
(* MCPToolLoader                                                           *)
(***************************************************************************)
\* Python truthiness of an optional string setting.
Truthy(v) == v \notin {None, ""}

ServerNames == {"math_tools", "web_tools"}
EmptyMap == << >>

\* A server entry: transport, auth.type ("none": no auth key) and env.
\* has_env = FALSE is an entry without an "env" key.
ServerConfigs ==
    { [transport |-> t, auth |-> a, has_env |-> FALSE, env |-> EmptyMap] :
         t \in {"stdio", "streamable-http"}, a \in {"none", "bearer"} }
    \cup
    { [transport |-> "stdio", auth |-> "bearer", has_env |-> TRUE,
       env |-> [x \in {"FOO"} |-> "bar"]],
      [transport |-> "streamable-http", auth |-> "bearer", has_env |-> TRUE,
       env |-> [x \in {"MCP_AUTH_TOKEN"} |-> "own-token"]],
      [transport |-> "sse", auth |-> "basic", has_env |-> TRUE,
       env |-> [x \in {"FOO"} |-> "bar"]],
      [transport |-> "stdio", auth |-> "none", has_env |-> TRUE,
       env |-> EmptyMap] }

Policies ==
    [proxy : {None, "http://p:8080"}, eas : {None, "https://eas"},
     cert : {None, "/c.pem"}]

\* config.data: without an mcp section, with an mcp section that has no
\* servers key, or with a servers map (possibly empty).
ConfigData ==
    { [shape |-> "no_mcp", servers |-> EmptyMap],
      [shape |-> "no_servers", servers |-> EmptyMap] }
    \cup
    { [shape |-> "servers", servers |-> m] :
         m \in UNION { [S -> ServerConfigs] : S \in SUBSET ServerNames } }

\* server_names as the caller passes it: None, or a list of names.
ServerNameFilters ==
    { [given |-> FALSE, names |-> {}] }
    \cup
    { [given |-> TRUE, names |-> S] :
         S \in { {}, {"math_tools"}, {"absent_tools"},
                 {"web_tools", "absent_tools"} } }

\* What the transport collaborator's get_tools may hand back.
ToolLists ==
    { << >>,
      << [name |-> "add", id |-> 1, returns |-> 10],
         [name |-> "add", id |-> 2, returns |-> 11] >>,
      << [name |-> "multiply", id |-> 3, returns |-> 20],
         [name |-> "add", id |-> 1, returns |-> 10] >> }
DiscoveryFailures == { [exc |-> "ConnectionError", msg |-> "server unreachable"] }

EnvSet(env, key, value) ==
    [x \in (DOMAIN env) \cup {key} |-> IF x = key THEN value ELSE env[x]]

\* config["env"] = config.get("env", {}); config["env"][key] = value
set_env(config, key, value) ==
    [config EXCEPT !.has_env = TRUE, !.env = EnvSet(config.env, key, value)]

\* loader.py:49-52
apply_proxy(pol, config) ==
    IF Truthy(pol.proxy) /\ ~config.has_env
    THEN set_env(set_env(config, "HTTP_PROXY", pol.proxy),
                 "HTTPS_PROXY", pol.proxy)
    ELSE config

apply_auth_any_type(pol, server_config, config) ==
    IF Truthy(pol.eas) /\ server_config.auth # "none"
    THEN set_env(config, "MCP_AUTH_TOKEN", "${EAS_TOKEN}")
    ELSE config

\* loader.py:55-58
apply_auth(pol, server_config, config) ==
    IF Truthy(pol.eas) /\ server_config.auth = "bearer"
    THEN set_env(config, "MCP_AUTH_TOKEN", "${EAS_TOKEN}")
    ELSE config

apply_cert_any_transport(pol, server_config, config) ==
    IF Truthy(pol.cert)
    THEN set_env(config, "SSL_CERT_FILE", pol.cert)
    ELSE config

\* loader.py:61-63
apply_cert(pol, server_config, config) ==
    IF Truthy(pol.cert) /\ server_config.transport = "streamable-http"
    THEN set_env(config, "SSL_CERT_FILE", pol.cert)
    ELSE config

\* loader.py:42-65. server_config.copy() is shallow: when the entry declares
\* an env mapping, config["env"] is that same object and every injection
\* also lands in the caller's entry. `config` is the returned mapping,
\* `source` the caller's entry afterwards.
_apply_enterprise_settings(pol, server_config) ==
    LET config == apply_cert(pol, server_config,
                     apply_auth(pol, server_config,
                        apply_proxy(pol, server_config)))
    IN  [config |-> config,
         source |-> IF server_config.has_env
                    THEN [server_config EXCEPT !.env = config.env]
                    ELSE server_config]

NoClient == [open |-> FALSE, servers |-> EmptyMap]

\* loader.py:20-21
configured_servers(d) == IF d.shape = "servers" THEN d.servers ELSE EmptyMap

filter_servers_ignored(servers, names) == servers

\* loader.py:28-29
filter_servers(servers, names) ==
    IF names.given /\ names.names # {}
    THEN [k \in (DOMAIN servers) \cap names.names |-> servers[k]]
    ELSE servers

no_servers_never(servers) == FALSE

\* loader.py:23
no_servers(servers) == DOMAIN servers = {}

NoFilter == [given |-> FALSE, names |-> {}]

\* loader.py:18-38, up to the await of get_tools.
load_tools ==
    /\ lpc = "idle"
    /\ \E names \in ServerNameFilters :
         LET servers == configured_servers(data)
             selected == filter_servers(servers, names)
         IN  /\ server_names' = names
             /\ discovered' = NoOutcome
             /\ IF no_servers(servers)
                THEN /\ load_ret' = [kind |-> "return", tools |-> << >>]
                     /\ UNCHANGED <<data, client, lpc>>
                ELSE /\ client' = [open |-> TRUE,
                                   servers |-> [k \in DOMAIN selected |->
                                      _apply_enterprise_settings(policy, selected[k]).config]]
                     /\ data' = [data EXCEPT !.servers =
                                   [k \in DOMAIN servers |->
                                      IF k \in DOMAIN selected
                                      THEN _apply_enterprise_settings(policy, servers[k]).source
                                      ELSE servers[k]]]
                     /\ lpc' = "AwaitingTools"
                     /\ load_ret' = NoOutcome
    /\ UNCHANGED <<policy, derived, agent_vars, resolver_vars, acquire_vars>>

RECURSIVE tools_deduplicated(_)
tools_deduplicated(list) ==
    IF list = << >> THEN << >>
    ELSE LET n == Len(list)
             rest == tools_deduplicated(SubSeq(list, 1, n - 1))
         IN  IF \E k \in 1..Len(rest) : rest[k].name = list[n].name
             THEN rest ELSE Append(rest, list[n])

\* loader.py:40: cast(List[BaseTool], tools), the list as it came.
tools_returned(list) == list

\* loader.py:38-40: get_tools completes; its failure propagates.
get_tools ==
    /\ lpc = "AwaitingTools"
    /\ lpc' = "idle"
    /\ \/ \E list \in ToolLists :
            /\ discovered' = [kind |-> "return", tools |-> list]
            /\ load_ret' = [kind |-> "return", tools |-> tools_returned(list)]
       \/ \E f \in DiscoveryFailures :
            /\ discovered' = Raise(f)
            /\ load_ret' = Raise(f)
    /\ UNCHANGED <<data, policy, client, derived, server_names, agent_vars, resolver_vars, acquire_vars>>

\* loader.py:42-65 called on one configured entry, as the tests do.
apply_enterprise_settings ==
    /\ \E name \in DOMAIN configured_servers(data) :
         LET r == _apply_enterprise_settings(policy, data.servers[name])
         IN  /\ derived' = [kind |-> "derived", input |-> data.servers[name],
                            output |-> r.config]
             /\ data' = [data EXCEPT !.servers[name] = r.source]
    /\ UNCHANGED <<policy, client, lpc, server_names, discovered, load_ret,
                   agent_vars, resolver_vars, acquire_vars>>

close_only_when_open ==
    /\ client.open
    /\ client' = NoClient
    /\ load_ret' = [kind |-> "closed"]
    /\ UNCHANGED <<data, policy, lpc, derived, server_names, discovered,
                   agent_vars, resolver_vars, acquire_vars>>

\* loader.py:67-71
close ==
    /\ client' = IF client.open THEN NoClient ELSE client
    /\ load_ret' = [kind |-> "closed"]
    /\ UNCHANGED <<data, policy, lpc, derived, server_names, discovered,
                   agent_vars, resolver_vars, acquire_vars>>

(***************************************************************************)
(* Model resolution: _get_model_ and _get_openai_model_                    *)
(***************************************************************************)
Threads == {"t1", "t2"}

\* Configured model slots. bypass_eas is "missing" when the slot has no such
\* attribute. NoModelConfig is a slot whose app_config is None.
OpenAIChat == [provider |-> "openai", bypass_eas |-> "missing", type |-> "chat"]
OpenAICompletion == [provider |-> "openai", bypass_eas |-> "false", type |-> "completion"]
OpenAIBypass == [provider |-> "openai", bypass_eas |-> "true", type |-> "chat"]
Anthropic == [provider |-> "anthropic", bypass_eas |-> "missing", type |-> "chat"]
NoModelConfig == [provider |-> None, bypass_eas |-> "missing", type |-> None]

\* config.eas: absent, present without an id_key, or fully configured.
EasConfigs ==
    { [present |-> FALSE, id_key |-> None, token_refresh_interval |-> 0],
      [present |-> TRUE, id_key |-> "", token_refresh_interval |-> 2],
      [present |-> TRUE, id_key |-> "app-id", token_refresh_interval |-> 2] }

Configs ==
    [eas : EasConfigs,
     models : { [x \in {"1", "2"} |-> IF x = "1" THEN a ELSE b] :
                  a \in {OpenAIChat, OpenAIBypass, Anthropic},
                  b \in {OpenAIChat, OpenAICompletion, NoModelConfig} }]

NoToken == [by |-> "none", at |-> 0]
NoKey == <<None, NoModelConfig>>
NoThread == [pc |-> "idle", index |-> None, path |-> "none", key |-> NoKey,
             token |-> NoToken, fetches |-> 0, ret |-> NoOutcome]

needs_eas_any_provider(cfg, model_config) ==
    /\ cfg.eas.present
    /\ Truthy(cfg.eas.id_key)
    /\ model_config.bypass_eas # "true"

\* model.py:49-63
needs_eas(cfg, model_config) ==
    LET configured == /\ cfg.eas.present
                      /\ Truthy(cfg.eas.id_key)
                      /\ model_config.bypass_eas # "true"
    IN  IF model_config.provider # "openai" THEN FALSE ELSE configured

\* SessionMap.uuid_from_config: a deterministic fingerprint of the
\* configuration of the slot.
uuid_from_config(cfg, model_config) == <<cfg.eas.id_key, model_config>>

\* SessionMap.is_expired: no session, or one as old as the refresh interval.
is_expired(map, key, interval, time) ==
    key \notin DOMAIN map \/ time - map[key].issued >= interval

\* SessionMap.new_session: one entry per key, stamped with the current time.
new_session(map, key, client_llm, time) ==
    [k \in (DOMAIN map) \cup {key} |->
        IF k = key THEN [issued |-> time, llm |-> client_llm] ELSE map[k]]

\* SessionMap.get_llm
get_llm(map, key) == map[key].llm

\* os.getenv(model_session_key)
getenv(env, key) == IF key \in DOMAIN env THEN env[key] ELSE NoToken

needs_refresh_always(auth_token, expired) == TRUE

\* model.py:96
needs_refresh(auth_token, expired) == auth_token = NoToken \/ expired

DirectFailures ==
    { [exc |-> "LCELModelException",
       msg |-> "API key not found in environment variable"] }
TokenFailures == { [exc |-> "Exception", msg |-> "token fetch failed"] }
BuildFailures == { [exc |-> "ValidationError", msg |-> "client not built"] }

store_session_skipped(map, key, client_llm, time) == map

\* model.py:104: the built client becomes the session of the fingerprint.
store_session(map, key, client_llm, time) == new_session(map, key, client_llm, time)

\* model.py:110-140: the client built from a token.
build_llm(auth_token, model_config) ==
    [kind |-> IF model_config.type = "chat" THEN "ChatOpenAI" ELSE "AzureOpenAI",
     token |-> auth_token]

\* model.py:37-70 and 91-96, 107: the slot is looked up, the path chosen;
\* on the enterprise path the cached session is returned unless the token
\* is missing or the session expired.
_get_model_(t) ==
    /\ threads[t].pc \in {"idle", "done"}
    /\ \E index \in DOMAIN app_config.models :
         LET model_config == app_config.models[index]
             fresh == [NoThread EXCEPT !.index = index]
             key == uuid_from_config(app_config, model_config)
         IN  IF model_config = NoModelConfig
             THEN threads' = [threads EXCEPT ![t] =
                     [fresh EXCEPT !.pc = "done",
                        !.ret = Raise([exc |-> "LCELModelException",
                                       msg |-> "Model app_config is not defined"])]]
             ELSE IF needs_eas(app_config, model_config)
             THEN IF needs_refresh(getenv(environ, key),
                        is_expired(session_map, key,
                                   app_config.eas.token_refresh_interval, now))
                  THEN threads' = [threads EXCEPT ![t] =
                          [fresh EXCEPT !.pc = "fetching", !.path = "eas",
                                        !.key = key]]
                  ELSE threads' = [threads EXCEPT ![t] =
                          [fresh EXCEPT !.pc = "done", !.path = "eas",
                              !.key = key,
                              !.ret = [kind |-> "return",
                                       llm |-> get_llm(session_map, key)]]]
             ELSE \/ threads' = [threads EXCEPT ![t] =
                        [fresh EXCEPT !.pc = "done", !.path = "direct",
                            !.ret = [kind |-> "return",
                                     llm |-> [kind |-> "direct", token |-> NoToken]]]]
                  \/ \E f \in DirectFailures :
                        threads' = [threads EXCEPT ![t] =
                           [fresh EXCEPT !.pc = "done", !.path = "direct",
                                         !.ret = Raise(f)]]
    /\ UNCHANGED <<app_config, environ, session_map, now, agent_vars, loader_vars,
                   acquire_vars>>

\* model.py:97-98: the token-fetch collaborator answers; the token is put
\* into the environment under the fingerprint.
get_token_from_env(t) ==
    /\ threads[t].pc = "fetching"
    /\ \/ LET auth_token == [by |-> t, at |-> now]
          IN  /\ environ' = [k \in (DOMAIN environ) \cup {threads[t].key} |->
                               IF k = threads[t].key THEN auth_token ELSE environ[k]]
              /\ threads' = [threads EXCEPT ![t] =
                    [@ EXCEPT !.pc = "building", !.token = auth_token,
                              !.fetches = @ + 1]]
       \/ \E f \in TokenFailures :
              /\ threads' = [threads EXCEPT ![t] =
                    [@ EXCEPT !.pc = "done", !.fetches = @ + 1, !.ret = Raise(f)]]
              /\ UNCHANGED environ
    /\ UNCHANGED <<app_config, session_map, now, agent_vars, loader_vars,
                   acquire_vars>>

\* model.py:99-105: the client is built, stored as the session of the
\* fingerprint and returned; a failing constructor ends the acquisition.
_get_openai_model_(t) ==
    /\ threads[t].pc = "building"
    /\ \/ LET client_llm == build_llm(threads[t].token,
                                      app_config.models[threads[t].index])
          IN  /\ session_map' = store_session(session_map, threads[t].key,
                                              client_llm, now)
              /\ threads' = [threads EXCEPT ![t] =
                    [@ EXCEPT !.pc = "done",
                              !.ret = [kind |-> "return", llm |-> client_llm]]]
       \/ \E f \in BuildFailures :
              /\ threads' = [threads EXCEPT ![t] =
                    [@ EXCEPT !.pc = "done", !.ret = Raise(f)]]
              /\ UNCHANGED session_map
    /\ UNCHANGED <<app_config, environ, now, agent_vars, loader_vars,
                   acquire_vars>>

\* time passes
tick ==
    /\ now < MaxTime
    /\ now' = now + 1
    /\ UNCHANGED <<app_config, environ, session_map, threads, agent_vars, loader_vars,
                   acquire_vars>>

ResolverIdle ==
    /\ app_config = [eas |-> [present |-> FALSE, id_key |-> None,
                          token_refresh_interval |-> 0],
                 models |-> [x \in {"1", "2"} |-> NoModelConfig]]
    /\ environ = << >>
    /\ session_map = << >>
    /\ now = 0
    /\ threads = [t \in Threads |-> NoThread]

(***************************************************************************)
(* One call of model(index) in detail: path choice, the direct-credential  *)
(* path of _get_direct_model_ and the proxy wrap of _get_model_            *)
(***************************************************************************)
\* The providers _get_direct_model_ has a branch for.
SupportedProviders == {"openai", "anthropic", "google", "cohere", "huggingface"}

\* Provider values of the configured slot; "mistral" has no branch.
Providers == {"openai", "anthropic", "mistral"}

\* f"{model_config.provider.upper()}_API_KEY"
DefaultKeyEnv ==
    [p \in Providers |->
        CASE p = "openai" -> "OPENAI_API_KEY"
          [] p = "anthropic" -> "ANTHROPIC_API_KEY"
          [] p = "mistral" -> "MISTRAL_API_KEY"]

EnvNames == {"MY_CUSTOM_KEY"} \cup {DefaultKeyEnv[p] : p \in Providers}

\* An environment variable is absent (None), empty or holds a key.
EnvValues == {None, "", "sk-1"}

\* model_config.proxy / config.proxy: the lookup raises KeyError, or gives
\* None or a proxy setting.
KeyErrorRaised == "<KeyError>"
ModelProxies == {KeyErrorRaised, None, "http://model-proxy:3128"}
GlobalProxies == {KeyErrorRaised, "http://global-proxy:8080"}

NoAcquisition == [pc |-> "idle", path |-> "none", auto |-> "none",
                  got |-> NoOutcome, ret |-> NoOutcome]

Fails(exc, msg, names) ==
    [kind |-> "raise", exc |-> exc, msg |-> msg, names |-> names]
Gives(client_llm) == [kind |-> "return", llm |-> client_llm]

\* model.py:164-168: the key the automatic initialisation is handed.
auto_api_key(model_config, env) ==
    IF Truthy(model_config.api_key_env) /\ Truthy(env[model_config.api_key_env])
    THEN env[model_config.api_key_env]
    ELSE None

\* model.py:180-184
api_key_env_of(model_config) ==
    IF Truthy(model_config.api_key_env)
    THEN model_config.api_key_env
    ELSE DefaultKeyEnv[model_config.provider]

\* model.py:186-273: the manual initialisation, given whether the provider's
\* package can be imported.
manual_model(model_config, env, importable) ==
    LET name == api_key_env_of(model_config)
        api_key == env[name]
    IN  IF ~Truthy(api_key)
        THEN Fails("LCELModelException",
                   "API key not found in environment variable", name)
        ELSE IF model_config.provider = "openai"
        THEN Gives([kind |-> "ChatOpenAI", api_key |-> api_key, proxy |-> None])
        ELSE IF model_config.provider \in SupportedProviders
        THEN IF importable
             THEN Gives([kind |-> model_config.provider, api_key |-> api_key,
                         proxy |-> None])
             ELSE Fails("LCELModelException", "package not installed",
                        model_config.provider)
        ELSE Fails("LCELModelException", "Provider not supported",
                   model_config.provider)

\* wrap_llm_with_proxy: the client carries the proxy settings afterwards.
wrap_llm_with_proxy(client_llm, proxy_config) ==
    [client_llm EXCEPT !.proxy = proxy_config]

\* model.py:72-88: what _get_model_ ends with, given the client it got.
proxy_wrapped(cfg, model_config, client_llm) ==
    IF model_config.proxy = KeyErrorRaised
    THEN Fails("UnboundLocalError", "proxy_config referenced before assignment",
               "proxy_config")
    ELSE LET own == model_config.proxy
             proxy_config == IF own = None
                             THEN IF cfg.proxy = KeyErrorRaised THEN None ELSE cfg.proxy
                             ELSE own
         IN  IF proxy_config # None
             THEN Gives(wrap_llm_with_proxy(client_llm, proxy_config))
             ELSE Gives(client_llm)

\* model.py:28-70: model(index) looks the slot up and chooses the path.
model ==
    /\ acq.pc = "idle"
    /\ acq' = [acq EXCEPT
          !.pc = IF needs_eas(request.config, request.model_config)
                 THEN "enterprise" ELSE "direct",
          !.path = IF needs_eas(request.config, request.model_config)
                   THEN "eas" ELSE "direct"]
    /\ UNCHANGED <<request, os_environ, agent_vars, loader_vars, resolver_vars>>

\* model.py:66: _get_openai_model_ gives a client or fails.
enterprise_model ==
    /\ acq.pc = "enterprise"
    /\ \/ acq' = [acq EXCEPT !.pc = "acquired",
                     !.got = Gives([kind |-> "ChatOpenAI", api_key |-> "eas-token",
                                    proxy |-> None])]
       \/ \E f \in TokenFailures \cup BuildFailures :
             acq' = [acq EXCEPT !.pc = "done",
                        !.got = Fails(f.exc, f.msg, None),
                        !.ret = Fails(f.exc, f.msg, None)]
    /\ UNCHANGED <<request, os_environ, agent_vars, loader_vars, resolver_vars>>

\* model.py:146-176: init_chat_model is tried first. It can build a client
\* from the key it is handed or from the key variable the provider's own
\* package reads; any Exception it raises leads to the manual initialisation.
init_chat_model ==
    /\ acq.pc = "direct"
    /\ \/ /\ \/ auto_api_key(request.model_config, os_environ) # None
             \/ Truthy(os_environ[DefaultKeyEnv[request.model_config.provider]])
          /\ acq' = [acq EXCEPT !.pc = "acquired", !.auto = "returned",
                 !.got = Gives([kind |-> "init_chat_model",
                    api_key |-> auto_api_key(request.model_config, os_environ),
                    proxy |-> None])]
       \/ acq' = [acq EXCEPT !.pc = "manual", !.auto = "raised"]
    /\ UNCHANGED <<request, os_environ, agent_vars, loader_vars, resolver_vars>>

\* model.py:178-273: the manual initialisation; LCELModelException leaves
\* _get_model_ at once.
_get_direct_model_ ==
    /\ acq.pc = "manual"
    /\ \E importable \in BOOLEAN :
         LET got == manual_model(request.model_config, os_environ, importable)
         IN  acq' = [acq EXCEPT
                !.pc = IF got.kind = "return" THEN "acquired" ELSE "done",
                !.got = got,
                !.ret = IF got.kind = "return" THEN NoOutcome ELSE got]
    /\ UNCHANGED <<request, os_environ, agent_vars, loader_vars, resolver_vars>>

\* model.py:72-88: the proxy settings are looked up and applied, and the
\* client returned.
_get_model_returns ==
    /\ acq.pc = "acquired"
    /\ acq' = [acq EXCEPT !.pc = "done",
                  !.ret = proxy_wrapped(request.config, request.model_config,
                                        acq.got.llm)]
    /\ UNCHANGED <<request, os_environ, agent_vars, loader_vars, resolver_vars>>

AcquireIdle ==
    /\ request = [config |-> [eas |-> [present |-> FALSE, id_key |-> None,
                                       token_refresh_interval |-> 0],
                              proxy |-> KeyErrorRaised],
                  model_config |-> [provider |-> "openai", bypass_eas |-> "missing",
                                    type |-> "chat", api_key_env |-> None,
                                    proxy |-> None]]
    /\ os_environ = [n \in EnvNames |-> None]
    /\ acq = NoAcquisition

(***************************************************************************)
(* Specification of the agent                                              *)
(***************************************************************************)
LoaderIdle ==
    /\ data = [shape |-> "no_mcp", servers |-> EmptyMap]
    /\ policy = [proxy |-> None, eas |-> None, cert |-> None]
    /\ client = NoClient
    /\ lpc = "idle"
    /\ derived = NoOutcome
    /\ server_names = NoFilter
    /\ discovered = NoOutcome
    /\ load_ret = NoOutcome

AgentIdle(list) ==
    /\ tools = Registry(list)
    /\ pc = "Idle"
    /\ entry = "none"
    /\ loop_running = FALSE
    /\ llm = NoLlm
    /\ response = NoResponse
    /\ i = 0
    /\ results = << >>
    /\ in_progress = {}
    /\ invoked = << >>
    /\ model_calls = [resolve |-> 0, ainvoke |-> 0]
    /\ failure = NoFailure
    /\ aret = NoOutcome
    /\ ret = NoOutcome
    /\ unsupported = NoOutcome

\* agent.py:24-26: the state right after MCPToolAgent(model_id, tools).
Init ==
    /\ \E list \in SeqsUpTo(Handles, MaxTools) : AgentIdle(list)
    /\ LoaderIdle
    /\ ResolverIdle
    /\ AcquireIdle

Next ==
    \/ ainvoke
    \/ invoke
    \/ ModelResponds
    \/ DispatchNext
    \/ ToolCompletes
    \/ ReturnRecord
    \/ _call
    \/ batch
    \/ abatch

Spec == Init /\ [][Next]_vars

(***************************************************************************)
(* The agent's invocations under the assumption that the model and every   *)
(* dispatched tool eventually answer and the event loop keeps running the  *)
(* coroutine                                                               *)
(***************************************************************************)
LiveInit ==
    /\ AgentIdle(<< [name |-> "add", id |-> 1, returns |-> 10],
                    [name |-> "multiply", id |-> 3, returns |-> 20] >>)
    /\ LoaderIdle
    /\ ResolverIdle
    /\ AcquireIdle

LiveNext ==
    \/ ainvoke
    \/ invoke
    \/ ModelResponds
    \/ DispatchNext
    \/ ToolCompletes
    \/ ReturnRecord

LiveSpec ==
    /\ LiveInit
    /\ [][LiveNext]_vars
    /\ WF_vars(ModelResponds)
    /\ WF_vars(DispatchNext)
    /\ WF_vars(ToolCompletes)
    /\ WF_vars(ReturnRecord)

(***************************************************************************)
(* Specification of the loader                                             *)
(***************************************************************************)
\* loader.py:14-16: the state right after MCPToolLoader(config).
LoaderInit ==
    /\ data \in ConfigData
    /\ policy \in Policies
    /\ client = NoClient
    /\ lpc = "idle"
    /\ derived = NoOutcome
    /\ server_names = NoFilter
    /\ discovered = NoOutcome
    /\ load_ret = NoOutcome
    /\ AgentIdle(<< >>)
    /\ ResolverIdle
    /\ AcquireIdle

LoaderNext ==
    \/ load_tools
    \/ get_tools
    \/ apply_enterprise_settings
    \/ close

LoaderSpec == LoaderInit /\ [][LoaderNext]_vars

(***************************************************************************)
(* Specification of model resolution, called from two threads              *)
(***************************************************************************)
\* The process before any model was acquired: nothing cached.
ResolverInit ==
    /\ app_config \in Configs
    /\ environ = << >>
    /\ session_map = << >>
    /\ now = 0
    /\ threads = [t \in Threads |-> NoThread]
    /\ AgentIdle(<< >>)
    /\ LoaderIdle
    /\ AcquireIdle

ResolverNext ==
    \/ \E t \in Threads : _get_model_(t)
    \/ \E t \in Threads : get_token_from_env(t)
    \/ \E t \in Threads : _get_openai_model_(t)
    \/ tick

ResolverSpec == ResolverInit /\ [][ResolverNext]_vars

(***************************************************************************)
(* Specification of one model(index) call over the configurations of a     *)
(* slot and the API key variables of the environment                       *)
(***************************************************************************)
AcquireInit ==
    /\ \E e \in EasConfigs, global \in GlobalProxies, p \in Providers,
          key_env \in {None, "MY_CUSTOM_KEY"}, own \in ModelProxies :
          request = [config |-> [eas |-> e, proxy |-> global],
                     model_config |-> [provider |-> p, bypass_eas |-> "missing",
                                       type |-> "chat", api_key_env |-> key_env,
                                       proxy |-> own]]
    /\ \E custom \in EnvValues, default \in EnvValues :
          os_environ = [n \in EnvNames |->
              IF n = "MY_CUSTOM_KEY" THEN custom
              ELSE IF n = DefaultKeyEnv[request.model_config.provider] THEN default
              ELSE None]
    /\ acq = NoAcquisition
    /\ AgentIdle(<< >>)
    /\ LoaderIdle
    /\ ResolverIdle

AcquireNext ==
    \/ model
    \/ enterprise_model
    \/ init_chat_model
    \/ _get_direct_model_
    \/ _get_model_returns

AcquireSpec == AcquireInit /\ [][AcquireNext]_vars

(***************************************************************************)
(* Properties of MCPToolAgent                                              *)
(***************************************************************************)
RECURSIVE RegisteredRequests(_, _)
\* The names of the requests in `calls` that name a registered tool, in order.
RegisteredRequests(calls, registry) ==
    IF calls = << >> THEN << >>
    ELSE LET rest == RegisteredRequests(Tail(calls), registry)
         IN  IF Head(calls).name \in DOMAIN registry
             THEN <<Head(calls).name>> \o rest ELSE rest

ToolNames(res) == [k \in 1..Len(res) |-> res[k].tool]
UnknownCount(calls, registry) ==
    Cardinality({ k \in 1..Len(calls) : calls[k].name \notin DOMAIN registry })
Returned == pc = "Done" /\ aret.kind = "record"

\* C1: a response carrying N tool calls makes ainvoke return tool_results of
\* length N minus the number of unknown-name requests, naming the registered
\* requested tools in the order the model emitted them.
C1_OrderPreserved ==
    /\ (pc = "Done" /\ response.has_tool_calls /\ response.tool_calls # << >>)
          => aret.kind = "record"
    /\ Returned =>
          /\ Len(aret.tool_results) =
                Len(response.tool_calls) - UnknownCount(response.tool_calls, tools)
          /\ ToolNames(aret.tool_results) =
                RegisteredRequests(response.tool_calls, tools)

C1_Witness ==
    /\ Returned
    /\ Len(response.tool_calls) = 3
    /\ Len(aret.tool_results) = 2
    /\ aret.tool_results[1].tool = "multiply"
    /\ aret.tool_results[2].tool = "add"
    /\ "error" \in DOMAIN aret.tool_results[1]
    /\ "result" \in DOMAIN aret.tool_results[2]

\* What the call recorded for its k-th started invocation must be.
ExpectedOutcome(inv) ==
    IF inv.outcome = NoFailure
    THEN [tool |-> inv.handle.name, result |-> inv.handle.returns]
    ELSE [tool |-> inv.handle.name, error |-> inv.outcome.msg]

\* C2: a failing registered tool does not make ainvoke raise; its call gets
\* {tool, error: message}, the outcomes recorded for earlier calls stay as
\* they were, and every later requested call is still dispatched.
C2_PartialFailure ==
    /\ invoked # << >> => aret.kind # "raise"
    /\ \A k \in 1..Len(invoked) :
          invoked[k].outcome # Pending =>
             /\ k <= Len(results)
             /\ results[k] = ExpectedOutcome(invoked[k])
    /\ Returned =>
          /\ aret.tool_results = results
          /\ Len(invoked) = Len(results)
          /\ \A r \in 1..Len(response.tool_calls) :
                response.tool_calls[r].name \in DOMAIN tools =>
                   \E k \in 1..Len(invoked) : invoked[k].request = r

\* calls [A ok, B fails, C ok] gave exactly [A result, B error, C result]
C2_Witness ==
    /\ Returned
    /\ Len(invoked) = 3
    /\ invoked[1].outcome = NoFailure
    /\ invoked[2].outcome \in ToolFailures
    /\ invoked[3].outcome = NoFailure
    /\ aret.tool_results =
          << [tool |-> "add", result |-> invoked[1].handle.returns],
             [tool |-> "multiply", error |-> "Tool failed"],
             [tool |-> "add", result |-> invoked[3].handle.returns] >>

\* C3: a request naming a tool absent from the registry adds no entry to
\* tool_results, starts no tool invocation and does not make ainvoke raise;
\* the requests after it are still dispatched.
C3_UnknownDropped ==
    /\ \A k \in 1..Len(invoked) :
          /\ response.tool_calls[invoked[k].request].name \in DOMAIN tools
          /\ invoked[k].handle = tools[response.tool_calls[invoked[k].request].name]
    /\ \A k \in 1..Len(results) : results[k].tool \in DOMAIN tools
    /\ (pc = "Done" /\ response.has_tool_calls /\ response.tool_calls # << >>) =>
          /\ aret.kind = "record"
          /\ \A k \in 1..Len(aret.tool_results) :
                aret.tool_results[k].tool \in DOMAIN tools
          /\ \A r \in 1..Len(response.tool_calls) :
                response.tool_calls[r].name \in DOMAIN tools =>
                   \E k \in 1..Len(invoked) : invoked[k].request = r

C3_Witness ==
    /\ Returned
    /\ Len(response.tool_calls) = 3
    /\ response.tool_calls[1].name = "unknown_tool"
    /\ response.tool_calls[2].name = "multiply"
    /\ "multiply" \notin DOMAIN tools
    /\ response.tool_calls[3].name = "add"
    /\ Len(invoked) = 1
    /\ invoked[1].request = 3
    /\ ToolNames(aret.tool_results) = <<"add">>

\* C4: ainvoke returns the model's raw output, unchanged, exactly when the
\* output carries no tool-call requests (attribute missing, or empty); in
\* every other case it returns a {content, tool_results} record, also when
\* all requested names are unknown and tool_results is empty.
C4_ReturnShape ==
    (pc = "Done" /\ aret.kind \in {"raw", "record"}) =>
       /\ aret.kind = "raw" <=>
             (~response.has_tool_calls \/ Len(response.tool_calls) = 0)
       /\ aret.kind = "raw" => aret.value = response
       /\ aret.kind = "record" =>
             /\ DOMAIN aret = {"kind", "content", "tool_results"}
             /\ aret.content = IF response.type = "AIMessage"
                               THEN response.content ELSE response.repr

C4_Witness ==
    /\ Returned
    /\ Len(response.tool_calls) = 2
    /\ \A r \in 1..2 : response.tool_calls[r].name \notin DOMAIN tools
    /\ aret.tool_results = << >>

\* C5: tool dispatch inside one ainvoke is strictly sequential: at most one
\* tool invocation is in progress, and the invocation of a later request
\* starts only after every earlier one has completed.
C5_Sequential ==
    /\ Cardinality(in_progress) <= 1
    /\ in_progress # {} => (pc = "AwaitingTool" /\ in_progress = {i})
    /\ \A k \in 1..Len(invoked) :
          /\ invoked[k].outcome = Pending =>
                (k = Len(invoked) /\ invoked[k].request \in in_progress)
          /\ k < Len(invoked) => invoked[k].request < invoked[k + 1].request

C5_Witness ==
    /\ pc = "AwaitingTool"
    /\ Len(invoked) = 3
    /\ in_progress = {3}
    /\ invoked[1].outcome \in ToolFailures
    /\ invoked[2].outcome = NoFailure

\* C6: a failure of model resolution or of the model invocation is what
\* ainvoke fails with; nothing is retried, no tool is invoked and no result
\* record is returned.
C6_ModelFailurePropagates ==
    /\ failure # NoFailure =>
          /\ pc = "Done"
          /\ aret = [kind |-> "raise", exc |-> failure.exc, msg |-> failure.msg]
          /\ invoked = << >>
          /\ results = << >>
          /\ model_calls.resolve = 1
          /\ model_calls.ainvoke <= 1
    /\ aret.kind = "raise" => failure # NoFailure

C6_Witness ==
    /\ failure \in ModelFailures
    /\ model_calls = [resolve |-> 1, ainvoke |-> 1]
    /\ aret.kind = "raise"
    /\ tools # << >>

\* C7: _call, batch and abatch always fail with a NotImplementedError that
\* names the method, in every state of the agent, and change nothing else:
\* no model is resolved or invoked and no tool is invoked.
C7_Unsupported ==
    [][ unsupported' # unsupported =>
          \/ /\ unsupported' = NoOutcome
             /\ pc \in {"Idle", "Done"}
          \/ /\ unsupported'.kind = "raise"
             /\ unsupported'.exc = "NotImplementedError"
             /\ unsupported'.method \in {"_call", "batch", "abatch"}
             /\ UNCHANGED <<tools, pc, entry, llm, response, i, results,
                            in_progress, invoked, model_calls, failure, aret,
                            ret>> ]_vars

C7_Witness ==
    /\ unsupported = [kind |-> "raise", exc |-> "NotImplementedError",
                      method |-> "batch"]
    /\ pc = "AwaitingTool"
    /\ model_calls = [resolve |-> 1, ainvoke |-> 1]
    /\ Len(invoked) = 1

\* C8: invoke called while an event loop is running fails with the
\* RuntimeError that tells the caller to use ainvoke, without running
\* ainvoke; with no loop running, whatever ainvoke returns is what invoke
\* returns.
C8_InvokeWrapper ==
    (entry = "invoke" /\ pc = "Done") =>
       IF loop_running
       THEN /\ ret = [kind |-> "raise", exc |-> "RuntimeError",
                      msg |-> InvokeMessage]
            /\ model_calls = [resolve |-> 0, ainvoke |-> 0]
            /\ invoked = << >>
       ELSE /\ aret.kind # "none"
            /\ aret.kind \in {"raw", "record"} => ret = aret

C8_WitnessRunning ==
    /\ entry = "invoke" /\ pc = "Done" /\ loop_running
    /\ ret.kind = "raise"

C8_Witness ==
    /\ entry = "invoke" /\ pc = "Done" /\ ~loop_running
    /\ ret.kind = "record"
    /\ Len(ret.tool_results) = 2

RECURSIVE LastNamed(_, _)
\* The last handle called name in a construction list that has one.
LastNamed(list, name) ==
    IF list[Len(list)].name = name THEN list[Len(list)]
    ELSE LastNamed(SubSeq(list, 1, Len(list) - 1), name)

\* The arguments a request carries; a dict without "args" means {}.
RequestArgs(tool_call) ==
    IF tool_call.shape = "dict" /\ tool_call.args = Missing
    THEN EmptyArgs ELSE tool_call.args

\* C24: the registry built from a construction list holds, for every name
\* in it, the last handle with that name; during one ainvoke every started
\* invocation is the one invocation of a request that names a registered
\* tool, on the registry's handle for that name and with that request's
\* arguments, and at the return every such request has had its invocation.
C24_ExactlyOneInvocation ==
    /\ pc = "Idle" =>
          \A list \in SeqsUpTo(Handles, MaxTools) :
             /\ DOMAIN Registry(list) = { list[k].name : k \in 1..Len(list) }
             /\ \A n \in DOMAIN Registry(list) :
                   Registry(list)[n] = LastNamed(list, n)
    /\ \A k \in 1..Len(invoked) :
          /\ invoked[k].request \in 1..Len(response.tool_calls)
          /\ LET tool_call == response.tool_calls[invoked[k].request]
             IN  /\ tool_call.name \in DOMAIN tools
                 /\ invoked[k].handle = tools[tool_call.name]
                 /\ invoked[k].args = RequestArgs(tool_call)
          /\ \A j \in 1..Len(invoked) :
                j # k => invoked[j].request # invoked[k].request
    /\ Returned =>
          \A r \in 1..Len(response.tool_calls) :
             response.tool_calls[r].name \in DOMAIN tools =>
                Cardinality({ k \in 1..Len(invoked) : invoked[k].request = r }) = 1

\* Three requests, one of them failing, each invoked once on its handle.
C24_Witness ==
    /\ Returned
    /\ Len(response.tool_calls) = 3
    /\ Len(invoked) = 3
    /\ \E k \in 1..3 : invoked[k].outcome \in ToolFailures
    /\ DOMAIN tools = {"add", "multiply"}
    /\ invoked[1].handle = tools["add"]
    /\ invoked[2].args = EmptyArgs

\* C25: no step of ainvoke or invoke changes the tool registry, whatever
\* the outcome, and an invocation that follows an earlier one starts with
\* nothing left of it: no response, no results, no invocation records.
C25_Stateless ==
    [][ /\ tools' = tools
        /\ (pc = "Done" /\ pc' # "Done")
              => /\ pc' = "AwaitingModelResponse"
                 /\ response' = NoResponse
                 /\ results' = << >>
                 /\ invoked' = << >>
                 /\ in_progress' = {}
                 /\ i' = 0
                 /\ aret' = NoOutcome
                 /\ ret' = NoOutcome ]_vars

\* An invocation ended with a failure of the model on an agent that still
\* holds both tools it was built with.
C25_Witness ==
    /\ pc = "Done"
    /\ aret.kind = "raise"
    /\ failure \in ModelFailures
    /\ DOMAIN tools = {"add", "multiply"}
    /\ model_calls.ainvoke = 1

\* A step of the kind the states of ainvoke allow.
AllowedStep ==
    \/ pc' = pc /\ pc \in {"Idle", "Done"}
    \/ pc \in {"Idle", "Done"} /\ pc' \in {"AwaitingModelResponse", "Done"}
    \/ pc = "AwaitingModelResponse" /\ pc' \in {"DispatchingTools", "Done"}
    \/ pc = "DispatchingTools" /\ pc' = "DispatchingTools" /\ i' = i + 1
    \/ pc = "DispatchingTools" /\ pc' = "AwaitingTool" /\ i' = i
    \/ pc = "AwaitingTool" /\ pc' = "DispatchingTools" /\ i' = i + 1
    \/ /\ pc = "DispatchingTools" /\ pc' = "Done"
       /\ i = Len(response.tool_calls) + 1

\* C26: when the model and every dispatched tool eventually answer, every
\* ainvoke under way eventually is Done; it gets there only through
\* AwaitingModelResponse and then either at once (no tool calls, or the
\* model failed) or through the dispatch loop, which handles the requests
\* one by one and ends after the last.
C26_Terminates ==
    /\ (pc \notin {"Idle", "Done"}) ~> (pc = "Done")
    /\ [][AllowedStep]_vars

\* An invocation with the longest request list has gone through the loop.
C26_Witness ==
    /\ Returned
    /\ Len(response.tool_calls) = MaxToolCalls
    /\ i = MaxToolCalls + 1
    /\ Len(invoked) < MaxToolCalls

\* C30: with no event loop running, a failure of ainvoke leaves invoke
\* unmodified, whatever its kind.
C30_FailuresPropagateUnmodified ==
    (entry = "invoke" /\ pc = "Done" /\ ~loop_running /\ aret.kind = "raise")
        => ret = aret

(***************************************************************************)
(* Properties of MCPToolLoader                                             *)
(***************************************************************************)
Derived == derived.kind = "derived"

\* C9: whenever the policy supplies a proxy, the derived config has
\* env.HTTP_PROXY and env.HTTPS_PROXY equal to the proxy URL, whatever the
\* auth and cert injections do and whether or not the entry declares its
\* own env mapping.
C9_ProxyAlwaysInjected ==
    (Derived /\ Truthy(policy.proxy)) =>
       /\ derived.output.has_env
       /\ {"HTTP_PROXY", "HTTPS_PROXY"} \subseteq DOMAIN derived.output.env
       /\ derived.output.env["HTTP_PROXY"] = policy.proxy
       /\ derived.output.env["HTTPS_PROXY"] = policy.proxy

\* C10: for an entry that does not itself declare env.MCP_AUTH_TOKEN, the
\* derived config has env.MCP_AUTH_TOKEN exactly when the enterprise-auth
\* indicator is set and auth.type is "bearer", and its value is then the
\* placeholder ${EAS_TOKEN}.
C10_AuthPlaceholder ==
    (Derived /\ "MCP_AUTH_TOKEN" \notin DOMAIN derived.input.env) =>
       /\ "MCP_AUTH_TOKEN" \in DOMAIN derived.output.env
             <=> (policy.eas \notin {None, ""} /\ derived.input.auth = "bearer")
       /\ "MCP_AUTH_TOKEN" \in DOMAIN derived.output.env
             => derived.output.env["MCP_AUTH_TOKEN"] = "${EAS_TOKEN}"

C10_Witness ==
    /\ Derived
    /\ policy.eas = "https://eas"
    /\ derived.input.auth = "bearer"
    /\ derived.input.has_env
    /\ DOMAIN derived.input.env = {"FOO"}
    /\ derived.output.env["MCP_AUTH_TOKEN"] = "${EAS_TOKEN}"
    /\ derived.output.env["FOO"] = "bar"

\* C11: for an entry that does not itself declare env.SSL_CERT_FILE, the
\* derived config has env.SSL_CERT_FILE exactly when the policy supplies a
\* cert path and the transport is streamable-http, with that path as value;
\* a stdio entry never gets it, also when proxy and bearer auth both apply.
C11_CertOnlyForHttp ==
    (Derived /\ "SSL_CERT_FILE" \notin DOMAIN derived.input.env) =>
       /\ "SSL_CERT_FILE" \in DOMAIN derived.output.env
             <=> (policy.cert \notin {None, ""}
                  /\ derived.input.transport = "streamable-http")
       /\ "SSL_CERT_FILE" \in DOMAIN derived.output.env
             => derived.output.env["SSL_CERT_FILE"] = policy.cert
       /\ derived.input.transport = "stdio"
             => "SSL_CERT_FILE" \notin DOMAIN derived.output.env

\* a stdio entry with proxy and bearer-auth injections applied and a cert
\* configured, left without SSL_CERT_FILE
C11_Witness ==
    /\ Derived
    /\ policy.cert = "/c.pem"
    /\ derived.input.transport = "stdio"
    /\ derived.input.auth = "bearer"
    /\ DOMAIN derived.output.env = {"HTTP_PROXY", "HTTPS_PROXY", "MCP_AUTH_TOKEN"}

\* C12: settings derivation and load_tools never mutate the caller-owned
\* configuration: no step changes a server entry of the configuration
\* source, its env mapping included.
C12_SourceNeverMutated == [][data' = data]_vars

\* C13: with no mcp section, no servers key or an empty servers map,
\* load_tools returns an empty sequence without raising, constructs no
\* transport client and leaves the loader's client reference as it was.
C13_EmptyConfiguration ==
    (data.shape \in {"no_mcp", "no_servers"} \/ DOMAIN data.servers = {}) =>
       /\ client = [open |-> FALSE, servers |-> << >>]
       /\ lpc = "idle"
       /\ discovered = [kind |-> "none"]
       /\ load_ret \in { [kind |-> "none"], [kind |-> "closed"],
                         [kind |-> "return", tools |-> << >>] }

C13_Witness ==
    /\ data.shape = "no_servers"
    /\ server_names.given
    /\ server_names.names = {"math_tools"}
    /\ load_ret = [kind |-> "return", tools |-> << >>]
    /\ ~client.open

\* C14: for a non-empty name filter, the server map handed to the transport
\* collaborator has as keys exactly the configured server names that are in
\* the filter; names absent from the configuration are ignored.
C14_FilterExclusive ==
    (client.open /\ server_names.given /\ server_names.names # {}) =>
       DOMAIN client.servers = (DOMAIN data.servers) \cap server_names.names

C14_Witness ==
    /\ client.open
    /\ DOMAIN data.servers = {"math_tools", "web_tools"}
    /\ server_names.names = {"web_tools", "absent_tools"}
    /\ DOMAIN client.servers = {"web_tools"}
    /\ load_ret.kind = "return"
    /\ load_ret.tools # << >>

\* C15: close is total and idempotent: it can be called in every loader
\* state (never opened, opened, already closed) without failing, the client
\* reference is None afterwards, and a second close changes nothing.
C15_CloseIdempotent ==
    /\ ENABLED close
    /\ ~ENABLED (close /\ client' # [open |-> FALSE, servers |-> << >>])
    /\ load_ret.kind = "closed" =>
          /\ ~client.open
          /\ ~ENABLED (close /\ vars' # vars)

\* closed while a load_tools was awaiting discovery, so a client was open
C15_Witness ==
    /\ load_ret.kind = "closed"
    /\ lpc = "AwaitingTools"
    /\ ~client.open

\* C16: a failure of the transport collaborator during discovery is what
\* load_tools fails with, with no retry and no tool handles returned; when
\* discovery succeeds its handles are returned as they came, in order and
\* with duplicates kept.
C16_DiscoveryVerbatim ==
    discovered.kind # "none" =>
       /\ lpc = "idle"
       /\ load_ret.kind # "closed" => load_ret = discovered

C16_Witness ==
    /\ discovered.kind = "return"
    /\ Len(discovered.tools) = 2
    /\ discovered.tools[1].name = discovered.tools[2].name
    /\ load_ret = discovered

C16_WitnessFailure ==
    /\ discovered.kind = "raise"
    /\ load_ret = discovered
    /\ client.open

\* C27: after a load_tools whose filter selects no configured server (an
\* empty list, or only names absent from the configuration), the transport
\* collaborator was handed no configured server entry.
C27_EmptySelectionPassesNothing ==
    ( /\ data.shape = "servers"
      /\ server_names.given
      /\ server_names.names \cap DOMAIN data.servers = {} )
        => DOMAIN client.servers = {}

\* C28: between calls the loader holds a transport client only if the last
\* call to end was a load_tools that returned; after a load_tools that
\* failed during discovery and after a close it holds none.
C28_ClientHeldIffLoaded ==
    lpc = "idle" =>
       /\ load_ret.kind = "raise" => ~client.open
       /\ load_ret.kind = "closed" => ~client.open
       /\ client.open => load_ret.kind = "return"

(***************************************************************************)
(* Properties of model resolution                                          *)
(***************************************************************************)
\* The three conditions of the enterprise-auth path, read off the
\* configuration of the slot a thread asked for.
EnterpriseEligible(index) ==
    /\ app_config.models[index].provider = "openai"
    /\ app_config.models[index].bypass_eas # "true"
    /\ app_config.eas.present
    /\ app_config.eas.id_key \notin {None, ""}

\* C17: an acquisition of a defined model slot takes the enterprise-auth
\* path exactly when the provider is "openai", the bypass flag is not set
\* and an identity key is configured; otherwise the direct-credential path.
C17_PathSelection ==
    \A t \in Threads :
        (threads[t].pc # "idle" /\ app_config.models[threads[t].index] # NoModelConfig)
            => threads[t].path =
                   IF EnterpriseEligible(threads[t].index) THEN "eas" ELSE "direct"

\* One thread is on the enterprise path while the other took the direct
\* path for a non-openai provider although enterprise auth is configured.
C17_Witness ==
    /\ app_config.eas.id_key = "app-id"
    /\ threads["t1"].path = "eas"
    /\ threads["t2"].path = "direct"
    /\ app_config.models[threads["t2"].index].provider = "anthropic"

\* Thread t enters model(index) in this step.
Starts(t) == threads[t].pc \in {"idle", "done"} /\ threads'[t] # threads[t]

\* The session cache holds an entry for key that is younger than the
\* refresh interval.
CachedFresh(key) ==
    /\ key \in DOMAIN session_map
    /\ now - session_map[key].issued < app_config.eas.token_refresh_interval

\* C18: an enterprise-auth acquisition that finds a cached, non-expired
\* entry returns the cached client in the same step, without a token fetch
\* and without touching the cache or the stored token.
C18_CacheHit ==
    [][\A t \in Threads :
          (Starts(t) /\ threads'[t].path = "eas" /\ CachedFresh(threads'[t].key))
             => /\ threads'[t].pc = "done"
                /\ threads'[t].ret = [kind |-> "return",
                                      llm |-> session_map[threads'[t].key].llm]
                /\ threads'[t].fetches = 0
                /\ session_map' = session_map
                /\ environ' = environ]_vars

\* A thread got, without any fetch, the client the other thread had cached.
C18_Witness ==
    \E t \in Threads :
        /\ threads[t].pc = "done"
        /\ threads[t].path = "eas"
        /\ threads[t].fetches = 0
        /\ threads[t].ret.kind = "return"
        /\ threads[t].ret.llm = session_map[threads[t].key].llm
        /\ threads[t].ret.llm.token.by # t

\* Thread t returns a client from the enterprise path in this step.
ReturnsClient(t) ==
    /\ threads'[t] # threads[t]
    /\ threads'[t].pc = "done"
    /\ threads'[t].path = "eas"
    /\ threads'[t].ret.kind = "return"

\* C19: an enterprise-auth acquisition that finds its entry missing or
\* expired goes to the token fetch instead of returning; every client it
\* returns is the one of a cache entry younger than the refresh interval,
\* and a client returned after a refresh was built from the one token this
\* acquisition fetched and stored with the current time.
C19_NeverStale ==
    [][\A t \in Threads :
          /\ (Starts(t) /\ threads'[t].path = "eas" /\ ~CachedFresh(threads'[t].key))
                => (threads'[t].pc = "fetching" /\ session_map' = session_map)
          /\ ReturnsClient(t)
                => /\ threads'[t].key \in DOMAIN session_map'
                   /\ session_map'[threads'[t].key].llm = threads'[t].ret.llm
                   /\ now - session_map'[threads'[t].key].issued
                          < app_config.eas.token_refresh_interval
          /\ (ReturnsClient(t) /\ threads[t].pc = "building")
                => /\ threads'[t].fetches = 1
                   /\ threads'[t].ret.llm.token = threads[t].token
                   /\ threads'[t].ret.llm.token.by = t
                   /\ session_map'[threads'[t].key].issued = now
                   /\ \A k \in DOMAIN session_map :
                          k # threads'[t].key => session_map'[k] = session_map[k]]_vars

\* A thread refreshed the session at a time the client the other thread
\* got at time 0 had expired, and returned the fresh client.
C19_Witness ==
    \E t, u \in Threads :
        /\ t # u
        /\ threads[u].ret.kind = "return"
        /\ threads[u].key = threads[t].key
        /\ threads[u].ret.llm.token.at = 0
        /\ threads[t].pc = "done"
        /\ threads[t].path = "eas"
        /\ threads[t].fetches = 1
        /\ threads[t].ret.kind = "return"
        /\ threads[t].ret.llm.token.at >= app_config.eas.token_refresh_interval
        /\ session_map[threads[t].key] = [issued |-> now, llm |-> threads[t].ret.llm]

\* Thread t is between its expiry check and its store.
Refreshing(t) == threads[t].pc \in {"fetching", "building"}

\* C20: overlapping enterprise-auth acquisitions for one fingerprint are
\* never both between the expiry check and the store, so that a missing or
\* expired entry is re-authenticated at most once.
C20_NoOverlappingRefresh ==
    \A t, u \in Threads :
        (t # u /\ Refreshing(t) /\ Refreshing(u))
            => threads[t].key # threads[u].key

\* C29: whenever no acquisition is between its expiry check and its store
\* for a fingerprint, a token is recorded in the environment for that
\* fingerprint only if the session cache holds an entry for it.
C29_TokenOnlyWithSession ==
    \A key \in DOMAIN environ :
        (\A t \in Threads : ~(Refreshing(t) /\ threads[t].key = key))
            => key \in DOMAIN session_map

(***************************************************************************)
(* Properties of the direct-credential path and of the proxy wrap          *)
(***************************************************************************)
\* C21: on the direct-credential path, whenever the variable the credential
\* is read from (api_key_env when set, else {PROVIDER}_API_KEY) is absent or
\* empty, the acquisition fails with an LCELModelException naming that
\* variable and no client is obtained.
C21_MissingCredentialFails ==
    ( /\ acq.path = "direct"
      /\ acq.got.kind # "none"
      /\ os_environ[api_key_env_of(request.model_config)] \in {None, ""} )
        => acq.got = Fails("LCELModelException",
                           "API key not found in environment variable",
                           api_key_env_of(request.model_config))

\* C22: on the direct-credential path a provider outside the supported five
\* always ends in the error that names the provider and lists the supported
\* ones, and never in a client.
C22_UnsupportedProviderRejected ==
    ( /\ acq.path = "direct"
      /\ acq.got.kind # "none"
      /\ request.model_config.provider \notin
             {"openai", "anthropic", "google", "cohere", "huggingface"} )
        => acq.got = Fails("LCELModelException", "Provider not supported",
                           request.model_config.provider)

\* A proxy lookup that gave a setting.
Configured(proxy) == proxy \notin {KeyErrorRaised, None}

\* The proxy the returned client should carry: the model's own when set,
\* else the global one, else none.
ExpectedProxy ==
    IF Configured(request.model_config.proxy) THEN request.model_config.proxy
    ELSE IF Configured(request.config.proxy) THEN request.config.proxy
    ELSE None

====
